---- MODULE Spec2Model ----
(***************************************************************************)
(* The authenticated HTTP gateway of shopify-mcp (the remote server that   *)
(* follows executeWithTimeout in src/src/utils/graphqlHelpers.ts): the     *)
(* token cache _tokenCache, getTokenExpiry, verifyOAuthToken and           *)
(* authMiddleware, and the session routes POST, GET and DELETE /mcp with   *)
(* the registry transports, as a state machine of interleaved requests.    *)
(* A request runs to completion between its suspension points: the await   *)
(* of fetch, the await of response.json(), and the awaits of the           *)
(* transport (server.connect and transport.handleRequest).                 *)
(***************************************************************************)
EXTENDS Integers, Sequences, FiniteSets, Bags, TLC

VARIABLES
    now,            \* Date.now(), in milliseconds
    auth0Domain,    \* AUTH0_DOMAIN is set (process.env, fixed at start)
    cache,          \* _tokenCache, in Map insertion order
    transports,     \* the keys of the Map transports, in insertion order
    nextId,         \* the session id that randomUUID() yields next
    terminated,     \* history: the ids whose DELETE a transport has handled
    req,            \* the bag of requests in flight (suspended at an await)
    last,           \* what the most recent handler step did and answered
    scen,           \* progress of the sequential scenario on one token
    shutdown,       \* the process: running, in its SIGINT handler, or exited
    store           \* store configuration, StoreManager and the last tool call

vars == <<now, auth0Domain, cache, transports, nextId, terminated, req, last, scen,
          shutdown, store>>

----------------------------------------------------------------------------
(* Bounds of the model *)
NReq == 2        \* requests in flight at the same time
MaxTicks == 2    \* clock ticks in one behaviour
MaxSessions == 2 \* sessions created in one behaviour
MaxStores == 2   \* store objects in the --stores array

(* Configuration (process.env) and program constants *)
TOKEN_CACHE_TTL_SECONDS == 1
TOKEN_CACHE_MAX_SIZE == 2
MsPerSecond == 1000

TOKEN_CACHE_TTL == TOKEN_CACHE_TTL_SECONDS * MsPerSecond
ClockStep == MsPerSecond \div 2
MaxTime == MaxTicks * ClockStep

----------------------------------------------------------------------------
(* Raw bearer credentials.  segs is the number of '.'-separated segments;  *)
(* pkind says what the middle segment decodes to: "garbage" (base64/JSON   *)
(* parse throws), "noexp" (an object without exp), "str" (exp is not a     *)
(* number), "num" (exp is the number in field exp, in seconds).            *)
Tok(id, segs, pkind, exp) == [id |-> id, segs |-> segs, pkind |-> pkind, exp |-> exp]

NoToken == Tok("", 1, "garbage", 0)

Tokens ==
    { Tok("opq", 1, "garbage", 0),
      Tok("j0", 3, "num", 0),
      Tok("jneg", 3, "num", -1),
      Tok("j1", 3, "num", 1) }

(* The Authorization header of a request *)
Headers ==
    { [present |-> FALSE, bearer |-> FALSE, cred |-> NoToken] }
    \cup { [present |-> TRUE, bearer |-> b, cred |-> t] :
             b \in BOOLEAN, t \in Tokens \cup {NoToken} }

WellKnownPaths == {"/.well-known/oauth-protected-resource"}
McpPaths == {"/mcp"}
Paths == {"/health", "/other"} \cup WellKnownPaths \cup McpPaths

(* The paths that the router matches to the handlers registered on '/mcp': *)
(* route matching ignores the case of the letters, req.path keeps it.      *)
RoutedMcpPaths == McpPaths \cup {"/MCP"}

Methods == {"GET", "POST", "DELETE", "OPTIONS"}

(* req.headers['mcp-session-id']: NoSessionId when the header is absent,   *)
(* else the id it names.  Session ids are numbered in the order in which   *)
(* randomUUID() yields them.                                               *)
NoSessionId == 0
SessionIds == 1..MaxSessions
SessionIdHeaders == {NoSessionId} \cup SessionIds

(* req.body: an initialize message, or any other message *)
Bodies == {"initialize", "other"}

isInitializeRequest(body) == body = "initialize"

(* What the await of a request handed to a registered transport comes to:  *)
(* the transport answers it, the await throws before any header is sent,   *)
(* or it throws when the transport has begun the response                  *)
ForwardOutcomes == {"answered", "throws", "throwsLate"}

(* A request as it arrives, with what its handling by a registered         *)
(* transport comes to if the handler forwards it before suspending         *)
Req(method, path, header, sid, body) ==
    [method |-> method, path |-> path, header |-> header, sid |-> sid,
     body |-> body, handling |-> "answered", lastEventId |-> FALSE]

(* The requests that arrive when validation is exercised: no header or    *)
(* any Bearer credential (the token extracted is the same without the      *)
(* prefix) on a POST /mcp that names no session and is no initialize       *)
(* message; on the other paths, where the middleware does not read the     *)
(* header, a GET with no header or, on /health, with one credential.       *)
Requests ==
    { Req("POST", path, h, NoSessionId, "other") :
        path \in McpPaths, h \in {g \in Headers : ~g.present \/ g.bearer} }
    \cup { Req("GET", path, h, NoSessionId, "other") :
              path \in Paths \ McpPaths, h \in {g \in Headers : ~g.present} }
    \cup { Req("GET", "/health", h, NoSessionId, "other") :
              h \in {g \in Headers : g.bearer /\ g.cred.id = "opq"} }

(* The requests that arrive when the session routes are exercised, with    *)
(* no credential or the opaque one.  On /mcp with the credential: every    *)
(* method, session header and body, a body only where the handler reads    *)
(* it (POST), a Last-Event-ID only where it is read (a GET that names a    *)
(* session); the transport fails only on a request that names a session    *)
(* and is no initialize message and no reconnect, and after it began to    *)
(* answer only on a POST.  On /mcp without a credential, which the         *)
(* middleware answers whatever they carry, and for a preflight: no         *)
(* session header and no body.  On the path the middleware does not        *)
(* recognise, without a credential: a POST initialize that names no        *)
(* session, a GET and a DELETE that name one.                              *)
SessionCredentials ==
    {h \in Headers : ~h.present \/ (h.bearer /\ h.cred.id = "opq")}

SessionRequests ==
    { x \in [method : Methods, path : RoutedMcpPaths, header : SessionCredentials,
             sid : SessionIdHeaders, body : Bodies, handling : ForwardOutcomes,
             lastEventId : BOOLEAN] :
        /\ x.lastEventId => x.method = "GET" /\ x.sid # NoSessionId
        /\ x.handling # "answered"
              => /\ x.method \in {"POST", "GET"} /\ x.sid # NoSessionId
                 /\ x.body = "other" /\ ~x.lastEventId /\ x.header.present
        /\ x.handling = "throwsLate" => x.method = "POST"
        /\ (x.path \in McpPaths /\ ~x.header.present)
              => x.sid = NoSessionId /\ x.body = "other"
        /\ x.method # "POST" => x.body = "other"
        /\ x.path \notin McpPaths
              => /\ ~x.header.present /\ ~x.lastEventId
                 /\ x.method \in {"POST", "GET", "DELETE"}
                 /\ x.method = "POST"
                       <=> (x.sid = NoSessionId /\ x.body = "initialize")
                 /\ x.method # "POST" => x.sid # NoSessionId
        /\ x.method = "OPTIONS" => ~x.header.present /\ x.sid = NoSessionId }

(* The requests that arrive when sessions are used with two credentials:   *)
(* sessions are created with the opaque credential; a POST that is no      *)
(* initialize message, a GET and a DELETE name a session and carry either  *)
(* credential.                                                             *)
AccessCredentials ==
    {h \in Headers : h.bearer /\ h.cred.id \in {"opq", "j1"}}

AccessRequests ==
    { Req("POST", path, h, NoSessionId, "initialize") :
        path \in McpPaths, h \in {g \in AccessCredentials : g.cred.id = "opq"} }
    \cup { Req(m, path, h, sid, "other") :
              m \in {"POST", "GET", "DELETE"}, path \in McpPaths,
              h \in AccessCredentials, sid \in SessionIds }

----------------------------------------------------------------------------
(* number | null *)
NullExpiry == [some |-> FALSE, ms |-> 0]
SomeExpiry(ms) == [some |-> TRUE, ms |-> ms]

(* JavaScript truthiness of a number | null *)
Truthy(e) == e.some /\ e.ms # 0

getTokenExpiry(token) ==
    IF token.segs # 3 THEN NullExpiry
    ELSE IF token.pkind = "garbage" THEN NullExpiry
    ELSE IF token.pkind = "num" /\ token.exp # 0
         THEN SomeExpiry(token.exp * MsPerSecond)
    ELSE NullExpiry

(* Values that leave the process in a log line or in a request: the        *)
(* credential itself, its digest, a claim of the user, a session id, or a  *)
(* text that holds none of these.                                          *)
Raw(token) == <<"credential", token.id>>
Text(v) == <<"text", v>>
Line(msg, arg) == [msg |-> msg, arg |-> arg]

(* Mutant of hashToken: the cache is keyed by the credential itself *)
hashTokenPlain(token) == Raw(token)

(* createHash('sha256').update(token).digest('hex') *)
hashToken(token) == <<"sha256", token.id>>

----------------------------------------------------------------------------
(* What verifyOAuthToken returns: the parsed /userinfo body, or null.      *)
(* A body is a JSON object (the claims) or the JSON value null.            *)
Null == [kind |-> "null", sub |-> ""]
Claims(token) == [kind |-> "object", sub |-> token.id]

(* !userInfo is false *)
IsTruthy(userInfo) == userInfo.kind = "object"

(* Outcomes of the two awaits of verifyOAuthToken *)
FetchOutcomes == {"ok", "notok", "throws"}
JsonOutcomes == {"object", "null", "throws"}

----------------------------------------------------------------------------
(* _tokenCache: a Map, modelled as the sequence of its entries in          *)
(* insertion order; key is the SHA-256 digest.                             *)
Entry(k, userInfo, expiry) == [key |-> k, userInfo |-> userInfo, expiry |-> expiry]

CacheKeys(c) == {c[i].key : i \in 1..Len(c)}

CacheHas(c, k) == \E i \in 1..Len(c) : c[i].key = k

CacheGet(c, k) == c[CHOOSE i \in 1..Len(c) : c[i].key = k]

(* Mutant of CacheSet: every insertion adds an entry *)
CacheAppend(c, k, userInfo, expiry) == Append(c, Entry(k, userInfo, expiry))

(* Map.set: an existing key keeps its place in the insertion order *)
CacheSet(c, k, userInfo, expiry) ==
    IF CacheHas(c, k)
    THEN [i \in 1..Len(c) |->
            IF c[i].key = k THEN Entry(k, userInfo, expiry) ELSE c[i]]
    ELSE Append(c, Entry(k, userInfo, expiry))

IsNotKey(e, k) == e.key # k

(* Map.delete *)
CacheDelete(c, k) ==
    LET Keep(e) == IsNotKey(e, k) IN SelectSeq(c, Keep)

(* Array.prototype.sort with (a, b) => a.expiry - b.expiry: stable *)
RECURSIVE InsertByExpiry(_, _)
InsertByExpiry(sorted, e) ==
    IF sorted = << >> THEN <<e>>
    ELSE IF e.expiry < Head(sorted).expiry THEN <<e>> \o sorted
    ELSE <<Head(sorted)>> \o InsertByExpiry(Tail(sorted), e)

RECURSIVE SortByExpiry(_)
SortByExpiry(c) ==
    IF c = << >> THEN << >>
    ELSE InsertByExpiry(SortByExpiry(SubSeq(c, 1, Len(c) - 1)), c[Len(c)])

RECURSIVE DeleteKeys(_, _, _)
DeleteKeys(c, sorted, n) ==
    IF n = 0 THEN c
    ELSE DeleteKeys(CacheDelete(c, Head(sorted).key), Tail(sorted), n - 1)

(* Mutants of EnforceSizeLimit: no limit; first-in first-out eviction *)
NoSizeLimit(c) == c

EvictOldestInserted(c) ==
    IF Len(c) > TOKEN_CACHE_MAX_SIZE
    THEN SubSeq(c, Len(c) - TOKEN_CACHE_MAX_SIZE + 1, Len(c))
    ELSE c

(* Mutant of EnforceSizeLimit: the entries of largest expiry are removed *)
EvictLargestExpiry(c) ==
    LET sorted == SortByExpiry(c)
        latestFirst == [i \in 1..Len(sorted) |-> sorted[Len(sorted) - i + 1]]
    IN  IF Len(c) > TOKEN_CACHE_MAX_SIZE
        THEN DeleteKeys(c, latestFirst, Len(c) - TOKEN_CACHE_MAX_SIZE)
        ELSE c

(* "Enforce cache size limit" *)
EnforceSizeLimit(c) ==
    IF Len(c) > TOKEN_CACHE_MAX_SIZE
    THEN DeleteKeys(c, SortByExpiry(c), Len(c) - TOKEN_CACHE_MAX_SIZE)
    ELSE c

Min(a, b) == IF a <= b THEN a ELSE b

(* Mutant of CacheExpiry: the TTL added in seconds, not milliseconds *)
CacheExpiryInSeconds(t, tokenExpiry) ==
    IF Truthy(tokenExpiry)
    THEN Min(t + TOKEN_CACHE_TTL_SECONDS, tokenExpiry.ms)
    ELSE t + TOKEN_CACHE_TTL_SECONDS

(* "Calculate cache expiry: minimum of cache TTL and token expiry" *)
CacheExpiry(t, tokenExpiry) ==
    IF Truthy(tokenExpiry)
    THEN Min(t + TOKEN_CACHE_TTL, tokenExpiry.ms)
    ELSE t + TOKEN_CACHE_TTL

(* tokenExpiry && now >= tokenExpiry *)
LocallyExpired(tokenExpiry, t) == Truthy(tokenExpiry) /\ t >= tokenExpiry.ms

(* Mutant of CacheHit: an entry is still served at its expiry instant *)
CacheHitAtExpiry(c, k, t) == CacheHas(c, k) /\ t <= CacheGet(c, k).expiry

(* cached && now < cached.expiry *)
CacheHit(c, k, t) == CacheHas(c, k) /\ t < CacheGet(c, k).expiry

----------------------------------------------------------------------------
(* A request in flight.  pc is where it stands: "fetch" (awaiting fetch),  *)
(* "json" (awaiting response.json()), "handshake" (a new transport:        *)
(* awaiting server.connect and transport.handleRequest), "terminate"       *)
(* (awaiting transport.handleRequest of a DELETE); "idle" stands for no    *)
(* request.  t is the value of now that verifyOAuthToken read, resp what   *)
(* fetch answered, userInfo what verifyOAuthToken returned to the          *)
(* middleware (Null when the middleware did not ask).                      *)
IdleReq ==
    [pc |-> "idle", token |-> NoToken, t |-> 0, resp |-> "none",
     method |-> "", path |-> "", sid |-> NoSessionId, body |-> "",
     lastEventId |-> FALSE, userInfo |-> Null]

InFlight(rq) == IF rq.pc = "idle" THEN EmptyBag ELSE SetToBag({rq})

(* userInfo.email || userInfo.sub || 'unknown' (the claims carry no email) *)
UserOf(userInfo) ==
    IF userInfo.sub # "" THEN <<"sub", userInfo.sub>> ELSE Text("unknown")

(* The record of a handler step: which step (kind), the request (method,   *)
(* path, token, sid: the Mcp-Session-Id header, body), the now that a      *)
(* "request" step read (t), where the result came                          *)
(* from (via: "local" expiry check, "cache", "provider"), whether it       *)
(* called fetch and with which Authorization (authz),                      *)
(* what fetch had answered (resp), what verifyOAuthToken returned (result),*)
(* the middleware's answer (status "pending" while the request is still in *)
(* flight, "none" when the middleware was not reached, "next", "401",      *)
(* "500"; wwwAuth the challenge sent), the expiry                          *)
(* of the entry it hit or inserted, the keys it evicted, in order,         *)
(* whether an exception was thrown inside verifyOAuthToken's try block,    *)
(* the answer to the client (http: "none" while pending, a status code, or *)
(* "transport" when the transport writes the response), the session whose  *)
(* transport the request was handed to (fwd), the session id assigned      *)
(* (newSid), and the lines written to the console.                         *)
NoStep ==
    [kind |-> "none", path |-> "", token |-> NoToken, t |-> 0,
     via |-> "none", called |-> FALSE, resp |-> "none", result |-> Null,
     status |-> "pending", wwwAuth |-> "none", expiry |-> 0, evicted |-> << >>,
     threw |-> FALSE,
     method |-> "", sid |-> NoSessionId, body |-> "", authz |-> Text(""),
     http |-> "none", fwd |-> NoSessionId, newSid |-> NoSessionId,
     handling |-> "none", envelope |-> "none", lastEventId |-> FALSE,
     log |-> << >>]

StepOf(kind, path, rq) ==
    [NoStep EXCEPT !.kind = kind, !.path = path, !.token = rq.token,
                   !.resp = rq.resp, !.method = rq.method,
                   !.sid = rq.sid, !.body = rq.body,
                   !.lastEventId = rq.lastEventId, !.result = rq.userInfo]

(* the request of a step, suspended at pc *)
ReqOf(st, pc) ==
    [IdleReq EXCEPT !.pc = pc, !.token = st.token, !.t = st.t,
                    !.method = st.method, !.path = st.path, !.sid = st.sid,
                    !.body = st.body, !.lastEventId = st.lastEventId,
                    !.userInfo = st.result]

Log(st, line) == [st EXCEPT !.log = Append(@, line)]

(* authHeader.replace('Bearer ', '').trim() *)
ExtractToken(header) == IF header.present THEN header.cred ELSE NoToken

(* authMiddleware: next() *)
PassOn(st) == [st EXCEPT !.status = "next"]

(* authMiddleware, after await verifyOAuthToken(token) *)
Respond(st, userInfo) ==
    IF IsTruthy(userInfo)
    THEN Log([st EXCEPT !.result = userInfo, !.status = "next"],
             Line("authenticated", Text("unknown")))
    ELSE Log([st EXCEPT !.result = userInfo, !.status = "401",
                        !.wwwAuth = "invalid_token", !.http = "401"],
             Line("authentication failed", Text("ip")))

(* Mutant of CatchVerifyError: the exception escapes to the server *)
PropagateVerifyError(st) == [st EXCEPT !.result = Null, !.status = "500"]

(* verifyOAuthToken: catch (error) { return null } *)
CatchVerifyError(st) ==
    Respond(Log(st, Line("OAuth verification error", Text("error"))), Null)

(* verifyOAuthToken up to its first await, and the middleware's answer     *)
(* when it returns without awaiting: the step's record, the request left   *)
(* in flight and the cache.                                                *)
VerifyStart(st, token, t, c) ==
    LET tokenHash == hashToken(token)
        tokenExpiry == getTokenExpiry(token)
        s0 == [st EXCEPT !.token = token, !.t = t]
    IN  IF LocallyExpired(tokenExpiry, t)
        THEN [st |-> Respond(Log([s0 EXCEPT !.via = "local"],
                                 Line("Token has expired", Text(""))), Null),
              rq |-> IdleReq,
              cache |-> CacheDelete(c, tokenHash)]
        ELSE IF CacheHit(c, tokenHash, t)
        THEN [st |-> Respond(
                       Log([s0 EXCEPT !.via = "cache",
                                      !.expiry = CacheGet(c, tokenHash).expiry],
                           Line("Token validated from cache",
                                UserOf(CacheGet(c, tokenHash).userInfo))),
                       CacheGet(c, tokenHash).userInfo),
              rq |-> IdleReq,
              cache |-> c]
        ELSE LET s1 == IF CacheHas(c, tokenHash)
                       THEN Log(s0, Line("Cached token expired", Text("")))
                       ELSE s0
                 s2 == [s1 EXCEPT !.via = "provider", !.called = TRUE,
                                  !.authz = Raw(token)]
             IN [st |-> s2,
                 rq |-> ReqOf(s2, "fetch"),
                 cache |-> CacheDelete(c, tokenHash)]

(* Mutant of AfterFetch: a rejected token whose own exp is still in the    *)
(* future is accepted                                                      *)
AfterFetchTrustingLocalExpiry(st, outcome) ==
    IF outcome = "throws" THEN CatchVerifyError([st EXCEPT !.resp = outcome])
    ELSE IF outcome = "notok"
    THEN IF Truthy(getTokenExpiry(st.token))
         THEN Respond([st EXCEPT !.resp = outcome], Claims(st.token))
         ELSE Respond([st EXCEPT !.resp = outcome], Null)
    ELSE [st EXCEPT !.resp = outcome]

(* verifyOAuthToken when fetch settles: the step's record *)
AfterFetch(st, outcome) ==
    IF outcome = "throws" THEN CatchVerifyError([st EXCEPT !.resp = outcome])
    ELSE IF outcome = "notok"
    THEN Respond(Log([st EXCEPT !.resp = outcome],
                     Line("Token validation via /userinfo failed", Text("status"))),
                 Null)
    ELSE [st EXCEPT !.resp = outcome]

(* Mutant of CacheAfterFetch: a rejection is cached for the TTL *)
CacheRejection(c, rq, outcome) ==
    IF outcome = "notok"
    THEN CacheSet(c, hashToken(rq.token), Null, rq.t + TOKEN_CACHE_TTL)
    ELSE c

(* the cache when fetch settles: no branch of lines 195-204 writes it *)
CacheAfterFetch(c, rq, outcome) == c

(* the cache after a body was read: set, then enforce the size limit *)
CacheAfterSuccess(c, rq, userInfo) ==
    EnforceSizeLimit(
        CacheSet(c, hashToken(rq.token), userInfo,
                 CacheExpiry(rq.t, getTokenExpiry(rq.token))))

(* the body that response.json() yields *)
Body(rq, outcome) == IF outcome = "object" THEN Claims(rq.token) ELSE Null

(* the keys of c that d no longer holds, in c's order *)
Evicted(c, d) ==
    LET Gone(e) == e.key \notin CacheKeys(d) IN
    LET gone == SelectSeq(c, Gone) IN [i \in 1..Len(gone) |-> gone[i].key]

----------------------------------------------------------------------------
(* transports: a Map from session id to transport.  A transport is known   *)
(* by the session id it was registered under, so the Map is the sequence   *)
(* of its keys in insertion order.                                         *)
TransportsHas(tr, sid) == \E i \in 1..Len(tr) : tr[i] = sid

(* transports.set(sessionId, transport) *)
TransportsSet(tr, sid) == IF TransportsHas(tr, sid) THEN tr ELSE Append(tr, sid)

(* Mutant of TransportsDelete: the Map is cleared *)
TransportsClear(tr, sid) == << >>

(* transports.delete(sid) *)
TransportsDelete(tr, sid) ==
    LET Keep(k) == k # sid IN SelectSeq(tr, Keep)

(* sessionId is truthy: the header is present and not empty *)
HasSessionId(sid) == sid # NoSessionId

(* await transport.handleRequest(req, res, ...) on a registered transport, *)
(* with what the transport wrote of the response                           *)
Forward(st, sid, h) ==
    [st EXCEPT !.fwd = sid, !.handling = h,
               !.http = IF h = "throws" THEN "none" ELSE "transport"]

(* res.headersSent *)
headersSent(st) == st.http # "none"

(* res.status(400) *)
BadRequest(st) == [st EXCEPT !.http = "400"]

(* the body of the POST handler's 400: the JSON-RPC envelope, code -32000 *)
InvalidRequest(st) == [BadRequest(st) EXCEPT !.envelope = "-32000"]

(* the POST handler's catch: console.error, then the JSON-RPC envelope,    *)
(* code -32603, with status 500 unless the headers have been sent          *)
InternalError(st) ==
    LET s1 == Log(st, Line("Error handling MCP request", Text("error")))
    IN  IF ~headersSent(s1)
        THEN [s1 EXCEPT !.http = "500", !.envelope = "-32603"]
        ELSE s1

(* Mutant of PostMcp: a request that names a registered session is handed  *)
(* to the transport registered first                                       *)
PostMcpToOldest(st, tr, h) ==
    IF HasSessionId(st.sid) /\ TransportsHas(tr, st.sid)
    THEN LET s2 == Forward(st, tr[1], h)
         IN  [st |-> IF h = "answered" THEN s2 ELSE InternalError(s2),
              rq |-> IdleReq]
    ELSE IF ~HasSessionId(st.sid) /\ isInitializeRequest(st.body)
    THEN [st |-> st, rq |-> ReqOf(st, "handshake")]
    ELSE [st |-> InvalidRequest(st), rq |-> IdleReq]

(* app.post('/mcp') up to its first await: the step's record and the       *)
(* request left in flight                                                  *)
PostMcp(st, tr, h) ==
    LET s1 == IF HasSessionId(st.sid)
              THEN Log(st, Line("Received MCP request for session",
                                <<"session", ToString(st.sid)>>))
              ELSE st
    IN  IF HasSessionId(st.sid) /\ TransportsHas(tr, st.sid)
        THEN LET s2 == Forward(s1, st.sid, h)
             IN  [st |-> IF h = "answered" THEN s2 ELSE InternalError(s2),
                  rq |-> IdleReq]
        ELSE IF ~HasSessionId(st.sid) /\ isInitializeRequest(st.body)
        THEN [st |-> s1, rq |-> ReqOf(s1, "handshake")]
        ELSE [st |-> InvalidRequest(s1), rq |-> IdleReq]

(* Mutant of GetMcp: the stream is opened without looking the session up *)
GetMcpUnchecked(st, tr, h) ==
    IF ~HasSessionId(st.sid)
    THEN [st |-> BadRequest(st), rq |-> IdleReq]
    ELSE [st |-> Forward(st, st.sid, h), rq |-> IdleReq]

(* Mutant of GetMcp: a stream is opened only for the opaque credential *)
GetMcpOwnerOnly(st, tr, h) ==
    IF ~HasSessionId(st.sid) \/ ~TransportsHas(tr, st.sid) \/ st.result.sub # "opq"
    THEN [st |-> BadRequest(st), rq |-> IdleReq]
    ELSE [st |-> Forward(st, st.sid, h), rq |-> IdleReq]

(* app.get('/mcp'): the await is in no try block, a rejection leaves the   *)
(* handler and the gateway writes nothing                                  *)
GetMcp(st, tr, h) ==
    IF ~HasSessionId(st.sid) \/ ~TransportsHas(tr, st.sid)
    THEN [st |-> BadRequest(st), rq |-> IdleReq]
    ELSE LET s1 == IF st.lastEventId
                   THEN Log(st, Line("Client reconnecting with Last-Event-ID",
                                     Text("lastEventId")))
                   ELSE Log(st, Line("Establishing new SSE stream for session",
                                     <<"session", ToString(st.sid)>>))
         IN  [st |-> Forward(s1, st.sid, h), rq |-> IdleReq]

(* Mutant of DeleteMcp: the session is not looked up *)
DeleteMcpUnchecked(st, tr) ==
    IF ~HasSessionId(st.sid)
    THEN [st |-> BadRequest(st), rq |-> IdleReq]
    ELSE [st |-> [st EXCEPT !.fwd = st.sid], rq |-> ReqOf(st, "terminate")]

(* app.delete('/mcp') up to its await of transport.handleRequest *)
DeleteMcp(st, tr) ==
    IF ~HasSessionId(st.sid) \/ ~TransportsHas(tr, st.sid)
    THEN [st |-> BadRequest(st), rq |-> IdleReq]
    ELSE LET s1 == [Log(st, Line("Received session termination request for session",
                                 <<"session", ToString(st.sid)>>))
                      EXCEPT !.fwd = st.sid]
         IN [st |-> s1, rq |-> ReqOf(s1, "terminate")]

(* The router after the middleware called next(): the handlers registered  *)
(* on '/mcp'; no handler is left for any other path.                       *)
Route(st, tr, h) ==
    IF st.path \notin RoutedMcpPaths \/ st.method = "OPTIONS"
    THEN [st |-> [st EXCEPT !.http = "404"], rq |-> IdleReq]
    ELSE IF st.method = "POST" THEN PostMcp(st, tr, h)
    ELSE IF st.method = "GET" THEN GetMcp(st, tr, h)
    ELSE DeleteMcp(st, tr)

(* the rest of the request once the middleware has answered: the route     *)
(* handler runs if, and only if, the middleware called next()              *)
Dispatch(out, tr, h) ==
    IF out.st.status = "next"
    THEN LET r == Route(out.st, tr, h)
         IN [st |-> r.st, rq |-> r.rq, cache |-> out.cache]
    ELSE out

----------------------------------------------------------------------------
(* History of the sequential scenario: verifications of one token, one at  *)
(* a time, from the empty cache.  stage: "start" (no request has arrived), *)
(* "first" (the first verification awaits the provider), "cached" (it      *)
(* ended with the provider's claims), "second" (a second verification of   *)
(* the token began before t1 + TTL), "third" (a third one began at or      *)
(* after t1 + TTL), "off" (the behaviour is not this scenario).  calls     *)
(* counts the fetch calls of these verifications.                          *)
ScenStart == [stage |-> "start", tok |-> NoToken, t1 |-> 0, calls |-> 0]
ScenOff == [stage |-> "off", tok |-> NoToken, t1 |-> 0, calls |-> 0]

(* the token carries a numeric exp that is at or before t *)
PastOwnExpiry(token, t) ==
    token.segs = 3 /\ token.pkind = "num" /\ token.exp * MsPerSecond <= t

Calls(st) == IF st.called THEN 1 ELSE 0

ScenAfterRequest(sc, st, busy) ==
    IF busy \/ st.via = "none" \/ PastOwnExpiry(st.token, st.t) THEN ScenOff
    ELSE IF sc.stage = "start"
    THEN IF st.called
         THEN [stage |-> "first", tok |-> st.token, t1 |-> st.t, calls |-> 1]
         ELSE ScenOff
    ELSE IF sc.stage = "cached" /\ st.token = sc.tok /\ st.t < sc.t1 + TOKEN_CACHE_TTL
    THEN [sc EXCEPT !.stage = "second", !.calls = sc.calls + Calls(st)]
    ELSE IF sc.stage = "second" /\ st.token = sc.tok /\ st.t >= sc.t1 + TOKEN_CACHE_TTL
    THEN [sc EXCEPT !.stage = "third", !.calls = sc.calls + Calls(st)]
    ELSE ScenOff

ScenAfterFetch(sc, outcome) ==
    IF sc.stage = "first" /\ outcome # "ok" THEN ScenOff ELSE sc

ScenAfterJson(sc, outcome) ==
    IF sc.stage = "first"
    THEN IF outcome = "object" THEN [sc EXCEPT !.stage = "cached"] ELSE ScenOff
    ELSE sc

----------------------------------------------------------------------------
(* app.use(cors(...)): a preflight is answered by cors and goes no further *)
IsPreflight(st) == st.method = "OPTIONS"

(* The routes registered before the middleware: GET /health and the GET    *)
(* discovery routes                                                        *)
IsOpenRoute(st) ==
    st.method = "GET" /\ (st.path = "/health" \/ st.path \in WellKnownPaths)

OpenRoute(st) ==
    IF st.path = "/health" \/ auth0Domain
    THEN [st EXCEPT !.status = "none", !.http = "200"]
    ELSE [st EXCEPT !.status = "none", !.http = "501"]

(* authMiddleware: "Skip auth for health check, OAuth discovery, and CORS  *)
(* preflight"                                                              *)
IsExempt(st) ==
    st.path = "/health" \/ st.path \in WellKnownPaths \/ st.method = "OPTIONS"

(* authMiddleware: AUTH0_DOMAIN is not set *)
Misconfigured(st) ==
    Log([st EXCEPT !.status = "500", !.http = "500"],
        Line("AUTH0_DOMAIN not configured - OAuth required", Text("")))

(* Mutants of NoTokenProvided: the request goes on to the handler; the    *)
(* challenge is that of a rejected credential                              *)
NoTokenPassOn(st) == PassOn(st)

NoTokenInvalidToken(st) ==
    [st EXCEPT !.status = "401", !.http = "401", !.wwwAuth = "invalid_token"]

(* authMiddleware: no token *)
NoTokenProvided(st) ==
    Log([st EXCEPT !.status = "401", !.http = "401", !.wwwAuth = "challenge"],
        Line("No authorization token provided", Text("")))

(* authMiddleware up to its await of verifyOAuthToken, or to its answer *)
authMiddleware(st, header, t, c) ==
    LET token == ExtractToken(header)
        quiet(s) == [st |-> s, rq |-> IdleReq, cache |-> c]
    IN  IF IsExempt(st) THEN quiet(PassOn(st))
        ELSE IF st.path \in McpPaths
        THEN IF ~auth0Domain THEN quiet(Misconfigured(st))
             ELSE IF token = NoToken THEN quiet(NoTokenProvided(st))
             ELSE VerifyStart(Log(st, Line("Validating OAuth token for request from",
                                           Text("ip"))),
                              token, t, c)
        ELSE quiet(PassOn(st))

----------------------------------------------------------------------------
(* Store configuration (index.ts, stores/configParser.ts,                  *)
(* stores/storeManager.ts).  A JSON value is a pair: its type and, for a   *)
(* string, its text.                                                       *)
JStr(text) == <<"string", text>>
JNum == <<"number", "5">>
JUndef == <<"undefined", "">>

(* typeof v === "string" *)
IsString(v) == v[1] = "string"

(* !v *)
Falsy(v) == v = JUndef \/ v = JStr("")

(* s.trim() === "" *)
Blank(text) == text \in {"", " "}

StoreObject(id, domain, accessToken, apiVersion) ==
    [id |-> id, domain |-> domain, accessToken |-> accessToken,
     apiVersion |-> apiVersion]

(* The objects of a stores array: two well-formed stores, a second store   *)
(* with the id of the first, a whitespace id, a missing domain, a          *)
(* whitespace access token, an id that is not a string                     *)
StoreObjects ==
    { StoreObject(JStr("a"), JStr("a.myshopify.com"), JStr("ta"), JUndef),
      StoreObject(JStr("b"), JStr("b.myshopify.com"), JStr("tb"), JStr("2024-01")),
      StoreObject(JStr("a"), JStr("b.myshopify.com"), JStr("tb"), JUndef),
      StoreObject(JStr(" "), JStr("a.myshopify.com"), JStr("ta"), JUndef),
      StoreObject(JStr("b"), JUndef, JStr("tb"), JUndef),
      StoreObject(JStr("b"), JStr("b.myshopify.com"), JStr(" "), JUndef),
      StoreObject(JNum, JStr("a.myshopify.com"), JStr("ta"), JUndef) }

(* The text of --stores or SHOPIFY_STORES by what JSON.parse makes of it:  *)
(* absent (undefined or empty), not JSON, JSON that is no array, an array  *)
JsonText(kind, items) == [kind |-> kind, items |-> items]
Absent == JsonText("absent", << >>)

ArraysUpTo(n) ==
    UNION { [1..m -> StoreObjects] : m \in 0..n }

ArgvStores ==
    {Absent, JsonText("invalid", << >>), JsonText("object", << >>)}
    \cup { JsonText("array", items) : items \in ArraysUpTo(MaxStores) }

(* process.env: SHOPIFY_STORES and the single-store variables of the       *)
(* README ("" when unset)                                                  *)
Env(stores, accessToken, domain) ==
    [SHOPIFY_STORES |-> stores, SHOPIFY_ACCESS_TOKEN |-> accessToken,
     MYSHOPIFY_DOMAIN |-> domain]

Envs ==
    { Env(stores, v[1], v[2]) :
        stores \in {Absent, JsonText("invalid", << >>)}
                    \cup { JsonText("array", items) : items \in ArraysUpTo(1) },
        v \in {<<"", "">>, <<"tk", "">>, <<"tk", "my-store.myshopify.com">>} }

(* what parseStoreConfigs and the StoreManager constructor come to *)
Threw(error) == [ok |-> FALSE, error |-> error, value |-> << >>]
Returned(value) == [ok |-> TRUE, error |-> "", value |-> value]

(* the callback of storesData.map: the error it throws for a store        *)
(* object, "" for none                                                     *)
StoreError(obj) ==
    IF Falsy(obj.id) \/ ~IsString(obj.id) THEN "missing required field id"
    ELSE IF Falsy(obj.domain) \/ ~IsString(obj.domain)
    THEN "missing required field domain"
    ELSE IF Falsy(obj.accessToken) \/ ~IsString(obj.accessToken)
    THEN "missing required field accessToken"
    ELSE ""

(* StoreConfig: the texts of the fields; apiVersion "" when undefined *)
StoreConfig(obj) ==
    [id |-> obj.id[2], domain |-> obj.domain[2],
     accessToken |-> obj.accessToken[2], apiVersion |-> obj.apiVersion[2]]

(* JSON.parse, Array.isArray and storesData.map of one source *)
ParseStores(text, source) ==
    IF text.kind = "invalid" THEN Threw("Invalid JSON in " \o source)
    ELSE IF text.kind # "array" THEN Threw(source \o " must be a JSON array")
    ELSE LET bad == {i \in 1..Len(text.items) : StoreError(text.items[i]) # ""}
         IN  IF bad # {}
             THEN Threw(StoreError(text.items[CHOOSE i \in bad :
                                                 \A j \in bad : i <= j]))
             ELSE Returned([i \in 1..Len(text.items) |-> StoreConfig(text.items[i])])

(* parseStoreConfigs(argv) with process.env *)
parseStoreConfigs(argvStores, env) ==
    IF argvStores.kind # "absent"
    THEN ParseStores(argvStores, "--stores")
    ELSE IF env.SHOPIFY_STORES.kind # "absent"
    THEN ParseStores(env.SHOPIFY_STORES, "SHOPIFY_STORES")
    ELSE Threw("Store configuration is required")

(* config.apiVersion || "2023-07" *)
DefaultApiVersion == "2023-07"

(* new GraphQLClient(url, {headers}) *)
GraphQLClient(config) ==
    [domain |-> config.domain,
     apiVersion |-> IF config.apiVersion = "" THEN DefaultApiVersion
                    ELSE config.apiVersion,
     accessToken |-> config.accessToken]

(* this.stores: the Map from store id to client, in insertion order *)
StoresHas(stores, id) == \E i \in 1..Len(stores) : stores[i].id = id
StoreKeys(stores) == [i \in 1..Len(stores) |-> stores[i].id]

(* StoreManager.addStore *)
addStore(stores, config) ==
    IF Blank(config.id) THEN Threw("Store ID is required")
    ELSE IF Blank(config.domain) THEN Threw("Store domain is required")
    ELSE IF Blank(config.accessToken) THEN Threw("Access token is required")
    ELSE IF StoresHas(stores, config.id) THEN Threw("Duplicate store ID")
    ELSE Returned(Append(stores, [id |-> config.id, client |-> GraphQLClient(config)]))

(* the loop of the constructor over configs *)
RECURSIVE AddStores(_, _)
AddStores(stores, configs) ==
    IF configs = << >> THEN Returned(stores)
    ELSE LET r == addStore(stores, Head(configs))
         IN  IF r.ok THEN AddStores(r.value, Tail(configs)) ELSE r

(* new StoreManager(configs) *)
StoreManager(configs) ==
    IF Len(configs) = 0
    THEN Threw("At least one store configuration is required")
    ELSE AddStores(<< >>, configs)

(* Mutant of getClient: an unknown id yields the first store's client *)
getClientOrFirst(stores, storeId) ==
    IF StoresHas(stores, storeId)
    THEN Returned(<<stores[CHOOSE i \in 1..Len(stores) : stores[i].id = storeId].client>>)
    ELSE Returned(<<stores[1].client>>)

(* StoreManager.getClient: the client, or the error that lists the keys *)
getClient(stores, storeId) ==
    IF StoresHas(stores, storeId)
    THEN Returned(<<stores[CHOOSE i \in 1..Len(stores) : stores[i].id = storeId].client>>)
    ELSE [Threw("Store not found") EXCEPT !.value = StoreKeys(stores)]

(* The storeId of a tool call: z.string().min(1) *)
StoreIds == {"a", "b", "c", " "}

(* The store side of the process.  pc: "off" (not followed), "start",      *)
(* "parsed", "exit1" (index.ts printed the parse error and called          *)
(* process.exit(1)), "crashed" (the constructor threw), "ready".  call is  *)
(* the last tool call: its storeId, what getClient came to, and the        *)
(* clients that a request was sent with.                                   *)
NoCall == [storeId |-> "", got |-> Threw(""), requested |-> << >>]

StoreStart(argvStores, env) ==
    [pc |-> "start", argv |-> argvStores, env |-> env,
     parsed |-> Threw(""), manager |-> Threw(""), call |-> NoCall]

NoStore == [StoreStart(Absent, Env(Absent, "", "")) EXCEPT !.pc = "off"]

StoreStarts == { StoreStart(a, e) : a \in ArgvStores, e \in Envs }

----------------------------------------------------------------------------
(* The process and its end.  pc: "running"; "closing" while the SIGINT     *)
(* handler awaits transport.close() of session closing; "exited".  signal  *)
(* is the signal received, invoked the sessions on whose transport the     *)
(* handler has called close().                                             *)
Running ==
    [pc |-> "running", signal |-> "none", closing |-> NoSessionId, invoked |-> {}]

(* The signals that end the process: SIGINT has the handler registered     *)
(* with process.on, SIGTERM has none and ends the process at once          *)
Signals == {"SIGINT", "SIGTERM"}

(* What await transport.close() comes to: the transport closes (its        *)
(* onclose fires), or the await throws                                     *)
CloseOutcomes == {"closed", "throws"}

(* The entry that the iteration of transports.entries() yields after the   *)
(* entry of key after (NoSessionId at its start): a Map iterates in        *)
(* insertion order, skips deleted entries and reaches entries set during   *)
(* the iteration; ids are numbered in the order they are set.              *)
NextEntry(tr, after) ==
    LET later == {i \in 1..Len(tr) : tr[i] > after}
    IN  IF later = {} THEN NoSessionId
        ELSE tr[CHOOSE i \in later : \A j \in later : i <= j]

(* The for loop of the SIGINT handler up to its next await, or past its    *)
(* end to process.exit(0)                                                  *)
ShutdownLoop(sd, tr) ==
    LET sessionId == NextEntry(tr, sd.closing)
    IN  IF sessionId = NoSessionId
        THEN [sd EXCEPT !.pc = "exited"]
        ELSE [sd EXCEPT !.pc = "closing", !.closing = sessionId,
                        !.invoked = @ \cup {sessionId}]

----------------------------------------------------------------------------
(* The process after start-up, with the history of the scenario at sc *)
GatewayStarted(sc) ==
    /\ now = 0
    /\ auth0Domain \in BOOLEAN
    /\ cache = << >>
    /\ transports = << >>
    /\ nextId = 1
    /\ terminated = {}
    /\ req = EmptyBag
    /\ last = NoStep
    /\ scen = sc
    /\ shutdown = Running

(* ... where the store configuration is not followed *)
Started(sc) == GatewayStarted(sc) /\ store = NoStore

Init == Started(ScenStart)

(* Date.now() advances *)
Tick ==
    /\ now < MaxTime
    /\ now' = now + ClockStep
    /\ last' = NoStep
    /\ UNCHANGED <<auth0Domain, cache, transports, nextId, terminated, req, scen,
                   shutdown, store>>

(* A request arrives: cors, the routes registered before the middleware,   *)
(* authMiddleware with verifyOAuthToken up to its await of fetch and, when *)
(* the middleware calls next(), the route handler up to its first await    *)
Request(x) ==
    /\ BagCardinality(req) < NReq
    /\ LET st == [NoStep EXCEPT !.kind = "request", !.method = x.method,
                                !.path = x.path, !.sid = x.sid, !.body = x.body,
                                !.lastEventId = x.lastEventId]
           quiet(s) == [st |-> s, rq |-> IdleReq, cache |-> cache]
           out == IF IsPreflight(st)
                  THEN quiet([st EXCEPT !.status = "none", !.http = "204"])
                  ELSE IF IsOpenRoute(st) THEN quiet(OpenRoute(st))
                  ELSE Dispatch(authMiddleware(st, x.header, now, cache), transports,
                                x.handling)
       IN  /\ req' = req (+) InFlight(out.rq)
           /\ cache' = out.cache
           /\ last' = out.st
           /\ scen' = ScenAfterRequest(scen, out.st, req # EmptyBag)
    /\ UNCHANGED <<now, auth0Domain, transports, nextId, terminated, shutdown, store>>

(* fetch settles: a response (ok or not) or a network error *)
FetchResolve(rq, outcome) ==
    /\ rq.pc = "fetch"
    /\ req' = (req (-) SetToBag({rq})) (+)
              (IF outcome = "ok"
               THEN SetToBag({[rq EXCEPT !.pc = "json", !.resp = outcome]})
               ELSE EmptyBag)
    /\ cache' = CacheAfterFetch(cache, rq, outcome)
    /\ last' = AfterFetch([StepOf("fetch", rq.path, rq) EXCEPT
                              !.via = "provider",
                              !.threw = (outcome = "throws")], outcome)
    /\ scen' = ScenAfterFetch(scen, outcome)
    /\ UNCHANGED <<now, auth0Domain, transports, nextId, terminated, shutdown, store>>

(* response.json() settles: the body (a null body throws at               *)
(* userInfo.email), or a rejection; with the claims the middleware calls   *)
(* next() and the route handler runs up to its first await                 *)
JsonResolve(rq, outcome, h) ==
    /\ rq.pc = "json"
    /\ LET st == [StepOf("json", rq.path, rq) EXCEPT !.via = "provider"]
           userInfo == Body(rq, outcome)
           after == CacheAfterSuccess(cache, rq, userInfo)
           evicted == Evicted(CacheSet(cache, hashToken(rq.token), userInfo, 0),
                              after)
           s1 == Log([st EXCEPT !.expiry = CacheExpiry(rq.t, getTokenExpiry(rq.token)),
                                !.evicted = evicted],
                     Line("Token validated via Auth0", UserOf(userInfo)))
           s2 == IF evicted # << >>
                 THEN Log(s1, Line("Evicted tokens", Text("toRemove")))
                 ELSE s1
           out == IF outcome \in {"throws", "null"}
                  THEN [st |-> CatchVerifyError([st EXCEPT !.threw = TRUE]),
                        rq |-> IdleReq, cache |-> cache]
                  ELSE Dispatch([st |-> Respond(s2, userInfo), rq |-> IdleReq,
                                 cache |-> after],
                                transports, h)
       IN  /\ cache' = out.cache
           /\ last' = out.st
           /\ req' = (req (-) SetToBag({rq})) (+) InFlight(out.rq)
    /\ scen' = ScenAfterJson(scen, outcome)
    /\ UNCHANGED <<now, auth0Domain, transports, nextId, terminated, shutdown, store>>

(* What the awaits of a new transport come to: the transport initializes   *)
(* the session (sessionIdGenerator, then onsessioninitialized), it answers *)
(* the request without initializing a session, or an await throws          *)
HandshakeOutcomes == {"initialized", "rejected", "throws"}

(* What the await of a DELETE handed to a transport comes to: the          *)
(* transport closes (its onclose fires) and answers, or the await throws   *)
TerminateOutcomes == {"closed", "throws"}

(* onsessioninitialized: transports.set(sessionId, transport) *)
onsessioninitialized(tr, sessionId) == TransportsSet(tr, sessionId)

(* Mutant of onclose: the entry stays in the Map *)
oncloseKeepsEntry(tr, sid) == tr

(* transport.onclose *)
onclose(tr, sid) ==
    IF HasSessionId(sid) /\ TransportsHas(tr, sid)
    THEN TransportsDelete(tr, sid)
    ELSE tr

(* the lines onclose writes *)
oncloseLog(st, tr, sid) ==
    IF HasSessionId(sid) /\ TransportsHas(tr, sid)
    THEN Log(st, Line("Transport closed for session", <<"session", ToString(sid)>>))
    ELSE st

(* server.connect(transport) and transport.handleRequest(req, res, body)   *)
(* of a new transport settle                                               *)
HandshakeResolve(rq, outcome) ==
    /\ rq.pc = "handshake"
    /\ outcome = "initialized" => nextId <= MaxSessions
    /\ LET st == StepOf("handshake", rq.path, rq)
       IN  IF outcome = "initialized"
           THEN /\ transports' = onsessioninitialized(transports, nextId)
                /\ nextId' = nextId + 1
                /\ last' = Log([st EXCEPT !.newSid = nextId, !.http = "transport",
                                          !.handling = "answered"],
                               Line("Session initialized with ID",
                                    <<"session", ToString(nextId)>>))
           ELSE /\ UNCHANGED <<transports, nextId>>
                /\ last' = IF outcome = "throws"
                           THEN InternalError([st EXCEPT !.handling = "throws"])
                           ELSE [st EXCEPT !.http = "transport",
                                           !.handling = "answered"]
    /\ req' = req (-) SetToBag({rq})
    /\ UNCHANGED <<now, auth0Domain, cache, terminated, scen, shutdown, store>>

(* transport.handleRequest(req, res) of a DELETE settles *)
TerminateResolve(rq, outcome) ==
    /\ rq.pc = "terminate"
    /\ LET st == [StepOf("terminate", rq.path, rq) EXCEPT !.fwd = rq.sid]
       IN  IF outcome = "closed"
           THEN /\ transports' = onclose(transports, rq.sid)
                /\ terminated' = terminated \cup {rq.sid}
                /\ last' = [oncloseLog(st, transports, rq.sid) EXCEPT
                               !.http = "transport", !.handling = "answered"]
           ELSE /\ UNCHANGED <<transports, terminated>>
                /\ last' = Log([st EXCEPT !.http = "500", !.handling = "throws"],
                               Line("Error handling session termination",
                                    Text("error")))
    /\ req' = req (-) SetToBag({rq})
    /\ UNCHANGED <<now, auth0Domain, cache, nextId, scen, shutdown, store>>

(* A transport closes by itself (the client went away): its onclose fires. *)
(* sid is transport.sessionId: the id of a registered transport, or        *)
(* NoSessionId for the transport of a handshake that has not initialized   *)
(* a session.                                                              *)
TransportClosed(sid) ==
    /\ IF HasSessionId(sid) THEN TransportsHas(transports, sid)
       ELSE \E rq \in BagToSet(req) : rq.pc = "handshake"
    /\ transports' = onclose(transports, sid)
    /\ last' = oncloseLog([NoStep EXCEPT !.kind = "onclose", !.sid = sid],
                          transports, sid)
    /\ UNCHANGED <<now, auth0Domain, cache, nextId, terminated, req, scen,
                   shutdown, store>>

(* A signal arrives *)
Signal(sig) ==
    /\ shutdown.pc = "running"
    /\ shutdown' = IF sig = "SIGINT"
                   THEN ShutdownLoop([shutdown EXCEPT !.signal = sig], transports)
                   ELSE [shutdown EXCEPT !.pc = "exited", !.signal = sig]
    /\ last' = IF sig = "SIGINT"
               THEN Log([NoStep EXCEPT !.kind = "signal"],
                        Line("Shutting down server...", Text("")))
               ELSE [NoStep EXCEPT !.kind = "signal"]
    /\ UNCHANGED <<now, auth0Domain, cache, transports, nextId, terminated, req, scen,
                   store>>

(* await transport.close() of the SIGINT handler settles: after a close    *)
(* the handler deletes the entry, after a throw it logs; then the loop     *)
(* goes on                                                                 *)
CloseResolve(outcome) ==
    /\ shutdown.pc = "closing"
    /\ LET sessionId == shutdown.closing
           st == [NoStep EXCEPT !.kind = "close", !.sid = sessionId]
           closed == TransportsDelete(onclose(transports, sessionId), sessionId)
       IN  IF outcome = "closed"
           THEN /\ transports' = closed
                /\ shutdown' = ShutdownLoop(shutdown, closed)
                /\ last' = oncloseLog(st, transports, sessionId)
           ELSE /\ transports' = transports
                /\ shutdown' = ShutdownLoop(shutdown, transports)
                /\ last' = Log([st EXCEPT !.handling = "throws"],
                               Line("Error closing transport for session",
                                    <<"session", ToString(sessionId)>>))
    /\ UNCHANGED <<now, auth0Domain, cache, nextId, terminated, req, scen, store>>

(* index.ts: storeConfigs = parseStoreConfigs(argv), or the error is      *)
(* printed and the process exits with 1                                    *)
Parse ==
    /\ store.pc = "start"
    /\ LET r == parseStoreConfigs(store.argv, store.env)
       IN  store' = [store EXCEPT !.parsed = r,
                                  !.pc = IF r.ok THEN "parsed" ELSE "exit1"]
    /\ UNCHANGED <<now, auth0Domain, cache, transports, nextId, terminated, req, last,
                   scen, shutdown>>

(* index.ts: storeManager = new StoreManager(storeConfigs) *)
Construct ==
    /\ store.pc = "parsed"
    /\ LET r == StoreManager(store.parsed.value)
       IN  store' = [store EXCEPT !.manager = r,
                                  !.pc = IF r.ok THEN "ready" ELSE "crashed"]
    /\ UNCHANGED <<now, auth0Domain, cache, transports, nextId, terminated, req, last,
                   scen, shutdown>>

(* execute of a tool: storeManager.getClient(storeId), then the requests   *)
(* with that client; the throw of getClient is caught by the tool and      *)
(* thrown on as its error                                                  *)
Execute(storeId) ==
    /\ store.pc = "ready"
    /\ LET r == getClient(store.manager.value, storeId)
       IN  store' = [store EXCEPT !.call = [storeId |-> storeId, got |-> r,
                                            requested |-> IF r.ok THEN r.value
                                                          ELSE << >>]]
    /\ UNCHANGED <<now, auth0Domain, cache, transports, nextId, terminated, req, last,
                   scen, shutdown>>

(* The gateway when token validation is exercised *)
Next ==
    \/ Tick
    \/ \E x \in Requests : Request(x)
    \/ \E rq \in BagToSet(req), outcome \in FetchOutcomes : FetchResolve(rq, outcome)
    \/ \E rq \in BagToSet(req), outcome \in JsonOutcomes :
          JsonResolve(rq, outcome, "answered")

Spec == Init /\ [][Next]_vars

(* Time passes; every other step waits for a client or for the provider *)
FairSpec == Spec /\ WF_vars(Tick)

(* The gateway when the session routes are exercised: the provider        *)
(* answers every credential it is asked about with the claims; the         *)
(* scenario on one token is not followed.                                  *)
SessionInit == Started(ScenOff)

SessionNext ==
    \/ \E x \in SessionRequests : Request(x)
    \/ \E rq \in BagToSet(req) : FetchResolve(rq, "ok")
    \/ \E rq \in BagToSet(req), h \in ForwardOutcomes : JsonResolve(rq, "object", h)
    \/ \E rq \in BagToSet(req), outcome \in HandshakeOutcomes :
          HandshakeResolve(rq, outcome)
    \/ \E rq \in BagToSet(req), outcome \in TerminateOutcomes :
          TerminateResolve(rq, outcome)
    \/ \E sid \in SessionIdHeaders : TransportClosed(sid)

SessionSpec == SessionInit /\ [][SessionNext]_vars

(* The gateway when sessions are used with two credentials: the provider   *)
(* accepts or rejects a credential, the transports answer                  *)
AccessNext ==
    \/ \E x \in AccessRequests : Request(x)
    \/ \E rq \in BagToSet(req), outcome \in {"ok", "notok"} : FetchResolve(rq, outcome)
    \/ \E rq \in BagToSet(req) : JsonResolve(rq, "object", "answered")
    \/ \E rq \in BagToSet(req) : HandshakeResolve(rq, "initialized")
    \/ \E rq \in BagToSet(req) : TerminateResolve(rq, "closed")

AccessSpec == SessionInit /\ [][AccessNext]_vars

(* The gateway until the process ends: sessions are created with the       *)
(* opaque credential, transports close by themselves, a signal arrives;    *)
(* nothing runs once the process has exited.                               *)
ShutdownRequests ==
    { Req("POST", path, h, NoSessionId, "initialize") :
        path \in McpPaths, h \in {g \in Headers : g.bearer /\ g.cred.id = "opq"} }

(* the process has not exited *)
Alive == shutdown.pc # "exited"

ShutdownNext ==
    \/ \E x \in ShutdownRequests : Alive /\ Request(x)
    \/ \E rq \in BagToSet(req) : Alive /\ FetchResolve(rq, "ok")
    \/ \E rq \in BagToSet(req) : Alive /\ JsonResolve(rq, "object", "answered")
    \/ \E rq \in BagToSet(req) : Alive /\ HandshakeResolve(rq, "initialized")
    \/ \E sid \in SessionIds : Alive /\ TransportClosed(sid)
    \/ \E sig \in Signals : Signal(sig)
    \/ \E outcome \in CloseOutcomes : CloseResolve(outcome)

ShutdownSpec == SessionInit /\ [][ShutdownNext]_vars

(* The start of the process with a store configuration, and tool calls *)
StoreInit == GatewayStarted(ScenOff) /\ store \in StoreStarts

StoreNext ==
    \/ Parse
    \/ Construct
    \/ \E storeId \in StoreIds : Execute(storeId)

StoreSpec == StoreInit /\ [][StoreNext]_vars

----------------------------------------------------------------------------
(* Properties *)

TokenOfKey(k) == CHOOSE token \in Tokens : hashToken(token) = k

(* the step just taken was a token verification begun by authMiddleware *)
Verified(st) == st.kind = "request" /\ st.via # "none"

(* C1: in every reachable state, whatever the interleaving of the          *)
(* verifications, the cache stores at most TOKEN_CACHE_MAX_SIZE entries.   *)
C1_CacheBounded == Len(cache) <= TOKEN_CACHE_MAX_SIZE

(* an insertion evicted an entry while another verification was in flight *)
C1_Witness ==
    /\ last.kind = "json" /\ last.evicted # << >>
    /\ Len(cache) = TOKEN_CACHE_MAX_SIZE
    /\ req # EmptyBag

(* expiry of key k among the entries of c and the new entry (key, expiry) *)
ExpiryAmong(c, key, expiry, k) == IF k = key THEN expiry ELSE CacheGet(c, k).expiry

(* C2: inserting a new digest into a full cache (N entries, so N+1 with    *)
(* the new one) leaves exactly N entries; exactly one of the N+1 is gone,  *)
(* its expiry is the smallest of the N+1 (it may be the new entry), and    *)
(* the others are stored unchanged.                                        *)
C2_EvictsMinExpiry ==
    [][ LET key == hashToken(last'.token)
            all == CacheKeys(cache) \cup {key}
            gone == all \ CacheKeys(cache')
        IN  (/\ last'.kind = "json" /\ last'.status = "next"
             /\ Len(cache) = TOKEN_CACHE_MAX_SIZE
             /\ key \notin CacheKeys(cache))
            => /\ Len(cache') = TOKEN_CACHE_MAX_SIZE
               /\ Cardinality(gone) = 1
               /\ \A g \in gone, k \in all :
                     ExpiryAmong(cache, key, last'.expiry, g)
                        <= ExpiryAmong(cache, key, last'.expiry, k)
               /\ \A k \in CacheKeys(cache') :
                     CacheGet(cache', k).expiry
                        = ExpiryAmong(cache, key, last'.expiry, k)
      ]_vars

(* the entry just inserted was itself the one evicted: not the oldest *)
C2_Witness ==
    /\ last.kind = "json" /\ last.status = "next"
    /\ last.evicted = <<hashToken(last.token)>>
    /\ Len(cache) = TOKEN_CACHE_MAX_SIZE

C4_OnlyProviderAuthenticates ==
    /\ [](IsTruthy(last.result) =>
            \/ /\ last.kind = "json" /\ last.resp = "ok"
               /\ last.result = Claims(last.token)
            \/ /\ Verified(last) /\ last.via = "cache"
               /\ CacheHas(cache, hashToken(last.token))
               /\ last.t < CacheGet(cache, hashToken(last.token)).expiry
               /\ last.result = CacheGet(cache, hashToken(last.token)).userInfo)
    /\ [][ \A k \in CacheKeys(cache') :
             (k \notin CacheKeys(cache) \/ CacheGet(cache', k) # CacheGet(cache, k))
             => /\ last'.kind = "json" /\ last'.resp = "ok"
                /\ k = hashToken(last'.token)
                /\ CacheGet(cache', k).userInfo = Claims(last'.token)
         ]_vars
    /\ [](last.resp = "notok" => last.result = Null /\ last.status = "401")

(* the provider rejected a token whose own exp is still in the future *)
C4_Witness ==
    /\ last.kind = "fetch" /\ last.resp = "notok"
    /\ last.token.pkind = "num" /\ ~PastOwnExpiry(last.token, now)
    /\ last.status = "401"

(* C5: a verification of a three-segment token whose payload carries a     *)
(* numeric exp at or before now (zero and negative values included)        *)
(* returns null, leaves no cache entry for the digest and calls no fetch.  *)
C5_ExpiredRejectedLocally ==
    (Verified(last) /\ PastOwnExpiry(last.token, last.t))
    => /\ last.result = Null /\ last.status = "401"
       /\ ~last.called
       /\ ~CacheHas(cache, hashToken(last.token))

(* C6: every stored entry expires no later than now + TTL and, when the    *)
(* token carries a numeric exp, no later than that exp.                    *)
C6_EntryExpiryBounded ==
    \A i \in 1..Len(cache) :
        /\ cache[i].expiry <= now + TOKEN_CACHE_TTL
        /\ TokenOfKey(cache[i].key).segs = 3 /\ TokenOfKey(cache[i].key).pkind = "num"
           => cache[i].expiry <= TokenOfKey(cache[i].key).exp * MsPerSecond

(* C7: a step in which the provider rejects the token leaves the cache as  *)
(* it was and returns null; and a verification of a token that is not past *)
(* its own expiry and has no unexpired entry calls the provider.           *)
C7_RejectionNotCached ==
    [][ /\ (last'.kind = "fetch" /\ last'.resp = "notok")
           => cache' = cache /\ last'.result = Null
        /\ (/\ Verified(last') /\ ~PastOwnExpiry(last'.token, last'.t)
            /\ ~(/\ CacheHas(cache, hashToken(last'.token))
                 /\ last'.t < CacheGet(cache, hashToken(last'.token)).expiry))
           => last'.called
      ]_vars

(* the provider rejected a token and the cache holds nothing for it *)
C7_Witness ==
    /\ last.kind = "fetch" /\ last.resp = "notok"
    /\ ~CacheHas(cache, hashToken(last.token))
    /\ cache # << >>

(* C8: when fetch or response.json() throws, verify returns null, the      *)
(* cache is left as it was and the middleware answers 401; no step of a    *)
(* verification answers 5xx.                                               *)
C8_NetworkErrorIsInvalid ==
    /\ [][ last'.threw => /\ last'.result = Null /\ last'.status = "401"
                          /\ last'.wwwAuth = "invalid_token"
                          /\ cache' = cache ]_vars
    /\ [](last.kind \in {"fetch", "json"} => last.status \in {"pending", "next", "401"})

(* the body of an ok response could not be read *)
C8_Witness ==
    /\ last.kind = "json" /\ last.threw /\ last.resp = "ok"
    /\ last.status = "401" /\ cache # << >>

(* C9: whenever a verification awaits the provider, a step of a pending    *)
(* verification (an answer, or a timeout that cuts the call off)           *)
(* eventually happens.                                                     *)
C9_EveryVerificationCompletes ==
    (req # EmptyBag) ~> (last.kind \in {"fetch", "json"})

(* C10: from the empty cache, verifications of one valid token, one at a   *)
(* time: the first calls the provider and caches the claims under the      *)
(* digest; a second, begun before t1 + TTL, is served from the cache (one  *)
(* call in all); a third, begun at or after t1 + TTL, calls the provider   *)
(* once more (two calls in all).                                           *)
C10_SequentialScenario ==
    /\ scen.stage = "cached" =>
          /\ scen.calls = 1
          /\ CacheKeys(cache) = {hashToken(scen.tok)}
          /\ cache[1].userInfo = Claims(scen.tok)
    /\ scen.stage = "second" =>
          /\ scen.calls = 1
          /\ last.kind = "request" =>
                last.via = "cache" /\ last.result = Claims(scen.tok)
    /\ scen.stage = "third" => scen.calls = 2

(* the third verification has begun *)
C10_Witness == scen.stage = "third" /\ scen.calls = 2 /\ req # EmptyBag

(* Properties of the gate *)

RawCredentials == {Raw(token) : token \in Tokens}

(* C11: no key of the cache and no value written to the console is a raw   *)
(* credential; the credential leaves the process only as the Authorization *)
(* of the fetch that verifies this very token.                             *)
C11_NoPlaintext ==
    /\ \A k \in CacheKeys(cache) : k \notin RawCredentials
    /\ \A i \in 1..Len(last.log) : last.log[i].arg \notin RawCredentials
    /\ last.authz \in RawCredentials
          => last.called /\ last.authz = Raw(last.token)

(* a verified credential was cached and its user written to the console *)
C11_Witness ==
    /\ last.kind = "json" /\ last.status = "next"
    /\ CacheHas(cache, hashToken(last.token))
    /\ \E i \in 1..Len(last.log) : last.log[i].arg = <<"sub", last.token.id>>

C14_ChallengeOn401 ==
    last.http = "401" =>
        /\ last.wwwAuth \in {"challenge", "invalid_token"}
        /\ (last.wwwAuth = "invalid_token") <=> (last.token # NoToken)
        /\ last.status = "401"

(* a credential rejected by the local expiry check *)
C14_Witness ==
    /\ last.http = "401" /\ last.via = "local"
    /\ last.wwwAuth = "invalid_token"

----------------------------------------------------------------------------
(* Properties of the session routes *)

(* the step ran a handler registered on '/mcp' *)
Handled(st) ==
    /\ st.kind \in {"request", "json"} /\ st.status = "next"
    /\ st.path \in RoutedMcpPaths /\ st.method \in {"POST", "GET", "DELETE"}

(* the request of the step is a Create: a POST of an initialize message *)
IsCreate(st) == st.method = "POST" /\ isInitializeRequest(st.body)

(* C13: without a provider domain, every request that the router matches   *)
(* to an /mcp handler is answered 500; it calls no fetch and leaves the    *)
(* cache, the registry and the requests in flight as they were.            *)
C13_MisconfiguredIs500 ==
    [][ (/\ ~auth0Domain /\ last'.kind = "request"
         /\ last'.path \in RoutedMcpPaths
         /\ last'.method \in {"POST", "GET", "DELETE"})
        => /\ last'.http = "500" /\ ~last'.called
           /\ last'.fwd = NoSessionId
           /\ cache' = cache /\ transports' = transports /\ req' = req
      ]_vars

(* C15: an id enters the registry only in the handshake of a POST /mcp     *)
(* that carried no Mcp-Session-Id and an initialize message and for which  *)
(* the middleware had obtained claims; the id is the one the generator     *)
(* yields.                                                                 *)
C15_OnlyAuthenticatedCreate ==
    [][ \A sid \in SessionIds :
          (TransportsHas(transports', sid) /\ ~TransportsHas(transports, sid))
          => /\ last'.kind = "handshake" /\ IsCreate(last')
             /\ ~HasSessionId(last'.sid)
             /\ IsTruthy(last'.result)
             /\ sid = nextId /\ last'.newSid = sid
      ]_vars

(* the id was issued and is no longer registered *)
IsClosed(sid) == sid < nextId /\ ~TransportsHas(transports, sid)

(* C16: an id that was issued and removed is never registered again, a     *)
(* new session gets an id that was never issued, and a POST, GET or DELETE *)
(* that names an id which is not registered (closed, or never issued) is   *)
(* answered 400 and handed to no transport.                                *)
C16_ClosedIsTerminal ==
    /\ [][ \A sid \in SessionIds :
             /\ IsClosed(sid) => ~TransportsHas(transports', sid)
             /\ (TransportsHas(transports', sid) /\ ~TransportsHas(transports, sid))
                   => sid >= nextId
         ]_vars
    /\ [][ (/\ Handled(last') /\ HasSessionId(last'.sid)
            /\ ~TransportsHas(transports, last'.sid))
           => /\ last'.http = "400" /\ last'.fwd = NoSessionId
              /\ transports' = transports
         ]_vars

(* a request named a closed id while another session was active *)
C16_Witness ==
    /\ Handled(last) /\ IsClosed(last.sid)
    /\ last.http = "400" /\ transports # << >>

C18_CreateWithIdRejected ==
    (Handled(last) /\ IsCreate(last) /\ HasSessionId(last.sid))
    => last.http = "400" /\ last.fwd = NoSessionId

(* C19: a POST that is no initialize message, a GET or a DELETE whose      *)
(* Mcp-Session-Id is missing or names no registered session is answered    *)
(* 400, is handed to no transport and leaves the registry unchanged.       *)
C19_UnknownSessionRejected ==
    [][ (/\ Handled(last') /\ ~IsCreate(last')
         /\ ~HasSessionId(last'.sid) \/ ~TransportsHas(transports, last'.sid))
        => /\ last'.http = "400" /\ last'.fwd = NoSessionId
           /\ transports' = transports /\ nextId' = nextId
           /\ \A r \in BagToSet(req') : r.pc \in {"fetch", "json"} \/ r \in BagToSet(req)
      ]_vars

(* a DELETE without Mcp-Session-Id was rejected while a session was active *)
C19_Witness ==
    /\ Handled(last) /\ last.method = "DELETE" /\ ~HasSessionId(last.sid)
    /\ last.http = "400" /\ transports # << >>

(* C20: when the DELETE handed to the transport of an active session has   *)
(* been handled, the id is no longer in the registry.                      *)
C20_TerminateRemoves ==
    [][ last'.kind = "terminate" => ~TransportsHas(transports', last'.sid) ]_vars

(* the session ids registered in tr *)
Registered(tr) == {k \in SessionIds : TransportsHas(tr, k)}

(* the step just taken ran the close callback of the transport of session  *)
(* st.sid: the transport closed by itself, or it closed on a DELETE        *)
CloseFired(st) ==
    st.kind = "onclose" \/ (st.kind = "terminate" /\ st.handling = "answered")

(* C21: when a transport's close callback fires, the entry of exactly that *)
(* session leaves the registry and every other entry stays as it is; when  *)
(* the session is not registered (already removed, or the transport never  *)
(* initialized one) the registry is unchanged and nothing is reported.     *)
C21_CloseRemovesExactlyThat ==
    [][ CloseFired(last')
        => /\ Registered(transports') = Registered(transports) \ {last'.sid}
           /\ transports' = SelectSeq(transports, LAMBDA k : k # last'.sid)
           /\ ~TransportsHas(transports, last'.sid)
                 => /\ transports' = transports
                    /\ last'.log = << >> /\ last'.http \in {"none", "transport"} ]_vars

(* a transport closed by itself, its entry was removed and another         *)
(* session is still registered                                             *)
C21_Witness ==
    /\ last.kind = "onclose" /\ last.log # << >>
    /\ ~TransportsHas(transports, last.sid)
    /\ Len(transports) >= 1

(* C23: on POST, GET and DELETE /mcp alike, when the handling of the       *)
(* request throws before the response headers are sent the answer is 500   *)
(* with the JSON-RPC envelope of code -32603, and when the headers have    *)
(* been sent nothing more is written.                                      *)
C23_ThrowIs500Envelope ==
    /\ last.handling = "throws" => last.http = "500" /\ last.envelope = "-32603"
    /\ last.handling = "throwsLate" => last.http = "transport" /\ last.envelope = "none"

(* C26: a POST that is no initialize message, or a GET, that reaches its   *)
(* handler with the id of an ACTIVE                                        *)
(* session (a GET with or without Last-Event-ID) is handed to the          *)
(* transport registered under that id and to no other, and the step        *)
(* changes nothing of the registry: the same ids stay bound to the same    *)
(* transports, no id is issued, whatever else is in flight.                *)
C26_ForwardKeepsRegistry ==
    [][ (/\ Handled(last') /\ last'.method \in {"POST", "GET"} /\ ~IsCreate(last')
         /\ HasSessionId(last'.sid) /\ TransportsHas(transports, last'.sid))
        => /\ last'.fwd = last'.sid /\ last'.newSid = NoSessionId
           /\ transports' = transports /\ nextId' = nextId
           /\ terminated' = terminated ]_vars

(* a reconnecting stream was handed to its session's transport while       *)
(* another session was registered and another request was in flight        *)
C26_Witness ==
    /\ Handled(last) /\ last.method = "GET" /\ last.lastEventId
    /\ last.fwd = last.sid /\ TransportsHas(transports, last.sid)
    /\ Len(transports) = MaxSessions
    /\ req # EmptyBag

(* C27: a request reaches a handler registered on '/mcp', and through it a *)
(* transport, only with the claims that token verification returned for    *)
(* that request, on every path the router matches to these handlers.       *)
C27_NoDispatchWithoutClaims ==
    (Handled(last) \/ last.kind \in {"handshake", "terminate"})
    => IsTruthy(last.result)

(* the request of the step names a session and is no Create *)
NamesSession(st) == HasSessionId(st.sid) /\ ~IsCreate(st)

(* C29: whether a POST that is no initialize message, a GET or a DELETE    *)
(* naming a session is handed to a transport is decided by the id being    *)
(* registered and by the verification of the request's own credential,     *)
(* whoever created the session: with claims of its own and a registered    *)
(* id it is handed to the transport of that id, with an id that is not     *)
(* registered it is answered 400, and without claims it is handed to none. *)
(* Every session is created with the opaque credential.                    *)
C29_AccessIgnoresCreator ==
    [][ /\ last'.kind = "handshake" => last'.result.sub = "opq"
        /\ (last'.kind \in {"request", "json", "fetch"} /\ NamesSession(last'))
           => /\ (Handled(last') /\ TransportsHas(transports, last'.sid))
                 => last'.fwd = last'.sid /\ last'.http # "400"
              /\ (Handled(last') /\ ~TransportsHas(transports, last'.sid))
                 => last'.fwd = NoSessionId /\ last'.http = "400"
              /\ ~Handled(last') => last'.fwd = NoSessionId ]_vars

(* a stream of a session was opened for a request bearing the other        *)
(* credential                                                              *)
C29_Witness ==
    /\ Handled(last) /\ last.method = "GET" /\ last.result.sub = "j1"
    /\ last.fwd = last.sid /\ TransportsHas(transports, last.sid)

(* the number of entries that c stores under key k *)
EntriesOf(c, k) == Cardinality({i \in 1..Len(c) : c[i].key = k})

(* the step ended a verification with the claims the provider returned *)
Completed(st) == st.kind = "json" /\ ~st.threw /\ IsTruthy(st.result)

C28_ExpiredEvictedFirst ==
    [][ LET key == hashToken(last'.token)
            all == CacheKeys(cache) \cup {key}
            gone == all \ CacheKeys(cache')
        IN  (Completed(last') /\ last'.evicted # << >>)
            => \A g \in gone :
                  ExpiryAmong(cache, key, last'.expiry, g) > now'
                  => \A k \in CacheKeys(cache') : CacheGet(cache', k).expiry > now'
      ]_vars

(* an insertion into the full cache wrote an entry that had expired while  *)
(* the provider was awaited; the eviction removed it and kept the entries  *)
(* that are still valid                                                    *)
C28_Witness ==
    /\ Completed(last) /\ last.evicted = <<hashToken(last.token)>>
    /\ last.expiry <= now
    /\ Len(cache) = TOKEN_CACHE_MAX_SIZE
    /\ \A k \in CacheKeys(cache) : CacheGet(cache, k).expiry > now

(* C22: when the process has exited, no session is left in the registry:   *)
(* every session that was ACTIVE at the signal or was created afterwards   *)
(* has been closed and removed.                                            *)
C22_ShutdownClosesAll == shutdown.pc = "exited" => transports = << >>

----------------------------------------------------------------------------
(* Properties of the store configuration *)

(* the configurations that a stores array of well-formed objects yields *)
ConfigsOf(text) == [i \in 1..Len(text.items) |-> StoreConfig(text.items[i])]

WellFormed(text) ==
    text.kind = "array" /\ \A i \in 1..Len(text.items) : StoreError(text.items[i]) = ""

(* the store configuration comes from --stores when it is given *)
FromArgv ==
    (store.argv # Absent /\ WellFormed(store.argv))
    => store.parsed.ok /\ store.parsed.value = ConfigsOf(store.argv)

(* ... and otherwise from SHOPIFY_STORES *)
FromEnv ==
    (store.argv = Absent /\ WellFormed(store.env.SHOPIFY_STORES))
    => store.parsed.ok /\ store.parsed.value = ConfigsOf(store.env.SHOPIFY_STORES)

(* C25: once the configuration has been parsed, it is that of --stores     *)
(* when given, else that of SHOPIFY_STORES, and with neither of them but   *)
(* SHOPIFY_ACCESS_TOKEN and MYSHOPIFY_DOMAIN set, parsing succeeds with    *)
(* the one store of that domain and token.                                 *)
C25_LegacySingleStore ==
    store.pc \notin {"off", "start"}
    => /\ FromArgv
       /\ FromEnv
       /\ (/\ store.argv = Absent /\ store.env.SHOPIFY_STORES = Absent
           /\ store.env.SHOPIFY_ACCESS_TOKEN # "" /\ store.env.MYSHOPIFY_DOMAIN # "")
          => /\ store.parsed.ok /\ Len(store.parsed.value) = 1
             /\ store.parsed.value[1].domain = store.env.MYSHOPIFY_DOMAIN
             /\ store.parsed.value[1].accessToken = store.env.SHOPIFY_ACCESS_TOKEN

(* the configurations from which the constructor builds a manager: at      *)
(* least one, no blank id, domain or access token, no id twice             *)
Constructible(configs) ==
    /\ Len(configs) > 0
    /\ \A i \in 1..Len(configs) :
          ~Blank(configs[i].id) /\ ~Blank(configs[i].domain)
          /\ ~Blank(configs[i].accessToken)
    /\ \A i, j \in 1..Len(configs) : configs[i].id = configs[j].id => i = j

(* client was built from config *)
BuiltFrom(client, config) ==
    /\ client.domain = config.domain /\ client.accessToken = config.accessToken
    /\ client.apiVersion = IF config.apiVersion = "" THEN "2023-07"
                           ELSE config.apiVersion

(* C30: the constructor fails on an empty list, a blank id, domain or      *)
(* token and a repeated id, and succeeds otherwise; the manager then maps  *)
(* the configured ids one-to-one to the clients built from their           *)
(* configurations and never changes; a tool call with a configured id      *)
(* sends its requests with the client of exactly that configuration, and   *)
(* with any other id it fails with the list of the configured ids and      *)
(* sends nothing.                                                          *)
C30_ManagerFixedOneToOne ==
    /\ [](store.pc \in {"ready", "crashed"}
          => LET configs == store.parsed.value
                 stores == store.manager.value
             IN  /\ store.pc = "ready" <=> Constructible(configs)
                 /\ store.pc = "ready"
                    => /\ Len(stores) = Len(configs)
                       /\ \A i \in 1..Len(configs) :
                             /\ stores[i].id = configs[i].id
                             /\ BuiltFrom(stores[i].client, configs[i])
                       /\ store.call.storeId # ""
                          => IF \E i \in 1..Len(configs) :
                                   configs[i].id = store.call.storeId
                             THEN /\ store.call.got.ok
                                  /\ Len(store.call.requested) = 1
                                  /\ \A i \in 1..Len(configs) :
                                        configs[i].id = store.call.storeId
                                        => BuiltFrom(store.call.requested[1], configs[i])
                             ELSE /\ ~store.call.got.ok
                                  /\ store.call.requested = << >>
                                  /\ store.call.got.value
                                       = [i \in 1..Len(configs) |-> configs[i].id])
    /\ [][store.pc = "ready" => store'.manager = store.manager]_vars

(* a tool was called with an id that is not configured, on a manager of    *)
(* two stores                                                              *)
C30_Witness ==
    /\ store.pc = "ready" /\ Len(store.manager.value) = MaxStores
    /\ store.call.storeId = "c" /\ ~store.call.got.ok
    /\ store.call.requested = << >>

====
